---- MODULE Spec2Model ----
(***************************************************************************)
(* Model of the AG-UI research endpoint:                                   *)
(*   src/ag-ui-research-agent/src/my_endpoint/main.py                      *)
(*   src/ag-ui-research-agent/src/my_endpoint/langgraph_research_agent.py  *)
(*                                                                         *)
(* One frame of event_generator per request.  A step of the model is the   *)
(* code that runs between two suspension points of the generator (a yield, *)
(* with the pacing sleep that precedes it), or one call of the workflow.   *)
(* Texts are sequences of string tokens; progress is kept in hundredths.   *)
(***************************************************************************)
EXTENDS Integers, Sequences, FiniteSets, TLC

\* ------------------------------------------------------------------ bounds
NumReqs == 2
MaxMsgs == 2
MaxResults == 6

\* ------------------------------------------------------- program constants
OrganicLimit == 5
RelatedLimit == 3
PaaLimit == 3
GatherSteps == 2
AnalyzeSteps == 2

\* ---------------------------------------------------------- Python values
None == [py |-> "None"]
Str(toks) == [py |-> "str", s |-> toks]
IsStr(v) == v.py = "str"
Missing == "<missing>"
Get(d, k, default) == IF d[k] = Missing THEN default ELSE d[k]
Exc(type, text) == [py |-> "exception", type |-> type, text |-> text]
List(items) == [py |-> "list", v |-> items]
Dict(items) == [py |-> "dict", v |-> items]
Truthy(v) == v # None /\ v.v # <<>>

RECURSIVE Join(_, _)
Join(parts, sep) ==
    IF Len(parts) = 0 THEN <<>>
    ELSE IF Len(parts) = 1 THEN parts[1]
    ELSE parts[1] \o <<sep>> \o Join(Tail(parts), sep)

Take(s, n) == SubSeq(s, 1, IF Len(s) < n THEN Len(s) ELSE n)
NonEmpty(t) == t # <<>>

\* ------------------------------------------- langgraph_research_agent.py
NoResults == Str(<<"No relevant research results were found on the topic.">>)

CompiledUntruncated(body) ==
    [py |-> "dict",
     organic |-> body.organic,
     knowledgeGraph |-> IF Truthy(body.knowledgeGraph) THEN body.knowledgeGraph ELSE None,
     relatedSearches |-> IF Truthy(body.relatedSearches) THEN body.relatedSearches ELSE None,
     peopleAlsoAsk |-> IF Truthy(body.peopleAlsoAsk) THEN body.peopleAlsoAsk ELSE None]

Compiled(body) ==
    [py |-> "dict",
     organic |-> List(Take(body.organic.v, OrganicLimit)),
     knowledgeGraph |-> IF Truthy(body.knowledgeGraph) THEN body.knowledgeGraph ELSE None,
     relatedSearches |-> IF Truthy(body.relatedSearches)
                         THEN List(Take(body.relatedSearches.v, RelatedLimit)) ELSE None,
     peopleAlsoAsk |-> IF Truthy(body.peopleAlsoAsk)
                       THEN List(Take(body.peopleAlsoAsk.v, PaaLimit)) ELSE None]

web_search_keeps_empty(body) == Compiled(body)

\* web_search, from the parsed JSON object to the value returned
web_search(body) ==
    IF ~Truthy(body.organic) THEN NoResults ELSE Compiled(body)

ExcludedKeys == {"type", "title", "imageUrl"}

KgLine(kv) ==
    IF kv.list THEN <<kv.key, ": ">> \o Join([j \in 1..Len(kv.value) |-> <<kv.value[j]>>], ", ")
    ELSE <<kv.key, ": ", kv.value>>

KgTitle(kg) ==
    IF \E j \in 1..Len(kg.v) : kg.v[j].key = "title"
    THEN kg.v[CHOOSE j \in 1..Len(kg.v) : kg.v[j].key = "title"].value
    ELSE "the topic"

IsKgItemKeepsTitle(kv) == kv.key \notin {"type", "imageUrl"}

IsKgItem(kv) == kv.key \notin ExcludedKeys

knowledge_graph_text(kg) ==
    IF ~Truthy(kg) THEN <<>>
    ELSE LET kept == SelectSeq(kg.v, IsKgItem)
             kg_items == [j \in 1..Len(kept) |-> KgLine(kept[j])]
         IN IF kg_items = <<>> THEN <<>>
            ELSE <<"Knowledge Graph about ", KgTitle(kg), ":\n">> \o Join(kg_items, "\n")

related_searches_text(rs) ==
    IF ~Truthy(rs) THEN <<>>
    ELSE <<"Related Searches:\n">> \o Join([j \in 1..Len(rs.v) |-> <<"- ", rs.v[j]>>], "\n")

HasQuestion(q) == Get(q, "question", "") # ""

paa_text(paa) ==
    IF ~Truthy(paa) THEN <<>>
    ELSE LET asked == SelectSeq(paa.v, HasQuestion)
             paa_items == [j \in 1..Len(asked) |->
                              <<"Q: ", asked[j].question, "\nA: ",
                                Get(asked[j], "snippet", "No answer available")>>]
         IN IF paa_items = <<>> THEN <<>>
            ELSE <<"People Also Ask:\n">> \o Join(paa_items, "\n\n")

OrganicBlock(r) ==
    <<"Title: ", Get(r, "title", "No title"),
      "\nSnippet: ", Get(r, "snippet", "No preview"),
      "\nLink: ", Get(r, "link", Get(r, "url", "No link"))>>

organic_text(organic) ==
    Join([j \in 1..Len(organic) |-> OrganicBlock(organic[j])], "\n\n")

all_research_unfiltered(search_results) ==
    Join(<<organic_text(search_results.organic.v),
           knowledge_graph_text(search_results.knowledgeGraph),
           related_searches_text(search_results.relatedSearches),
           paa_text(search_results.peopleAlsoAsk)>>,
         "\n\n===\n\n")

all_research(search_results) ==
    Join(SelectSeq(<<organic_text(search_results.organic.v),
                     knowledge_graph_text(search_results.knowledgeGraph),
                     related_searches_text(search_results.relatedSearches),
                     paa_text(search_results.peopleAlsoAsk)>>, NonEmpty),
         "\n\n===\n\n")

APITimeoutError == Exc("APITimeoutError", "Request timed out.")
NoneSliceError == Exc("TypeError", "'NoneType' object is not subscriptable")

create_detailed_report_rejects_text(search_results, completion) ==
    IF IsStr(search_results)
    THEN [called |-> FALSE, prompt |-> <<>>, raised |-> TRUE, value |-> NoneSliceError]
    ELSE [called |-> TRUE, prompt |-> all_research(search_results), raised |-> FALSE,
          value |-> completion.content]

\* create_detailed_report; completion is what the completion API does when called
create_detailed_report(search_results, completion) ==
    IF IsStr(search_results)
    THEN [called |-> FALSE, prompt |-> <<>>, raised |-> FALSE, value |-> search_results]
    ELSE LET prompt == all_research(search_results)
         IN IF completion.kind = "raise"
            THEN [called |-> TRUE, prompt |-> prompt, raised |-> TRUE, value |-> completion.exc]
            ELSE IF completion.content = None
            THEN [called |-> TRUE, prompt |-> prompt, raised |-> TRUE, value |-> NoneSliceError]
            ELSE [called |-> TRUE, prompt |-> prompt, raised |-> FALSE,
                  value |-> completion.content]

AIMessage(content) == [py |-> "AIMessage", content |-> content]
HumanMessage(content) == [py |-> "HumanMessage", content |-> content]

\* ------------------------------------------------------ main.py: events
RunStartedEvent(thread_id, run_id) ==
    [type |-> "RUN_STARTED", thread_id |-> thread_id, run_id |-> run_id]
RunFinishedEvent(thread_id, run_id) ==
    [type |-> "RUN_FINISHED", thread_id |-> thread_id, run_id |-> run_id]
StateSnapshotEvent(message_id, snapshot) ==
    [type |-> "STATE_SNAPSHOT", message_id |-> message_id, snapshot |-> snapshot]
StateDeltaEvent(message_id, delta) ==
    [type |-> "STATE_DELTA", message_id |-> message_id, delta |-> delta]
TextMessageStartEvent(message_id) ==
    [type |-> "TEXT_MESSAGE_START", message_id |-> message_id, role |-> "assistant"]
TextMessageContentEvent(message_id, delta) ==
    [type |-> "TEXT_MESSAGE_CONTENT", message_id |-> message_id, delta |-> delta]
TextMessageEndEvent(message_id) ==
    [type |-> "TEXT_MESSAGE_END", message_id |-> message_id]

Replace(path, value) == [op |-> "replace", path |-> path, value |-> value]

Now == Str(<<"datetime.now().isoformat()">>)

InitialStateWithoutReport(query) ==
    [status |-> [phase |-> "initialized", error |-> None, timestamp |-> Now],
     research |-> [query |-> query, stage |-> "not_started", sources_found |-> 0,
                   sources |-> List(<<>>), completed |-> FALSE],
     processing |-> [progress |-> 0, completed |-> FALSE, inProgress |-> FALSE],
     ui |-> [showSources |-> FALSE, showProgress |-> TRUE, activeTab |-> "chat"]]

InitialState(query) ==
    [status |-> [phase |-> "initialized", error |-> None, timestamp |-> Now],
     research |-> [query |-> query, stage |-> "not_started", sources_found |-> 0,
                   sources |-> List(<<>>), completed |-> FALSE],
     processing |-> [progress |-> 0, report |-> None, completed |-> FALSE,
                     inProgress |-> FALSE],
     ui |-> [showSources |-> FALSE, showProgress |-> TRUE, activeTab |-> "chat"]]

\* round(num / den, 2) of a value given in hundredths as the fraction num / den
Round2(num, den) == (2 * num + den) \div (2 * den)

GatheringDelta ==
    <<Replace("/status/phase", "gathering_information"),
      Replace("/research/stage", "searching"),
      Replace("/processing/inProgress", TRUE),
      Replace("/processing/progress", 15)>>

\* progress = base + ((i + 1) / 20), rounded to two places
LoopProgress(base, i) == Round2(base * 20 + (i + 1) * 100, 20)

ProgressDelta(progress) == <<Replace("/processing/progress", progress)>>

AnalyzingDelta ==
    <<Replace("/status/phase", "analyzing_information"),
      Replace("/research/stage", "organizing_data"),
      Replace("/processing/progress", 30)>>

GeneratingDelta ==
    <<Replace("/status/phase", "generating_report"),
      Replace("/research/stage", "creating_detailed_report"),
      Replace("/processing/progress", 40)>>

report_stages ==
    <<"outlining_report", "drafting_executive_summary", "writing_introduction",
      "compiling_key_findings", "developing_analysis", "forming_conclusions",
      "finalizing_report">>

start_progress == 40
end_progress_full == start_progress + 60
end_progress == 90

StageProgressFromZero(i) ==
    Round2((end_progress - start_progress) * i, Len(report_stages))

\* progress = start_progress + interval * i, interval = (end - start) / len(report_stages)
StageProgress(i) ==
    Round2(start_progress * Len(report_stages) + (end_progress - start_progress) * i,
           Len(report_stages))

StageDelta(i) ==
    <<Replace("/research/stage", report_stages[i + 1]),
      Replace("/processing/progress", StageProgress(i))>>

SuccessDeltaShowsSources(report_content) ==
    <<Replace("/status/phase", "completed"),
      Replace("/research/stage", "report_complete"),
      Replace("/research/completed", TRUE),
      Replace("/processing/completed", TRUE),
      Replace("/processing/inProgress", FALSE),
      Replace("/processing/progress", 100),
      Replace("/processing/report", report_content),
      Replace("/ui/showSources", TRUE)>>

SuccessDelta(report_content) ==
    <<Replace("/status/phase", "completed"),
      Replace("/research/stage", "report_complete"),
      Replace("/research/completed", TRUE),
      Replace("/processing/completed", TRUE),
      Replace("/processing/inProgress", FALSE),
      Replace("/processing/progress", 100),
      Replace("/processing/report", report_content)>>

ErrorDelta(error_msg) ==
    <<Replace("/status/phase", "completed"),
      Replace("/status/error", error_msg),
      Replace("/research/stage", "error"),
      Replace("/research/completed", FALSE),
      Replace("/processing/completed", TRUE),
      Replace("/processing/inProgress", FALSE),
      Replace("/processing/progress", 0)>>

InvalidFormatMsg == Str(<<"Research results format is invalid.">>)
NoResultMsg == Str(<<"No research results were generated.">>)
FailedMsg(e) == Str(<<"Research process failed: ", e.text>>)

\* ------------------------------------------------------------ environment
Item(n) ==
    [title |-> "title" \o ToString(n), snippet |-> "snippet" \o ToString(n),
     link |-> "link" \o ToString(n), url |-> Missing]
Question(n) == [question |-> "question" \o ToString(n), snippet |-> "answer" \o ToString(n)]

BodyNoOrganic ==
    [py |-> "dict", organic |-> List(<<>>), knowledgeGraph |-> Dict(<<>>),
     relatedSearches |-> List(<<"related1">>), peopleAlsoAsk |-> List(<<>>)]
BodyOne ==
    [py |-> "dict",
     organic |-> List(<<[title |-> "title1", snippet |-> Missing, link |-> Missing,
                         url |-> "url1"]>>),
     knowledgeGraph |-> Dict(<<[key |-> "type", list |-> FALSE, value |-> "Language"]>>),
     relatedSearches |-> List(<<>>),
     peopleAlsoAsk |-> List(<<[question |-> "", snippet |-> "answer0"]>>)]
BodyFull ==
    [py |-> "dict",
     organic |-> List([n \in 1..MaxResults |-> Item(n)]),
     knowledgeGraph |-> Dict(<<[key |-> "title", list |-> FALSE, value |-> "Rust"],
                               [key |-> "type", list |-> FALSE, value |-> "Language"],
                               [key |-> "description", list |-> FALSE,
                                value |-> "A systems language"],
                               [key |-> "designers", list |-> TRUE,
                                value |-> <<"Graydon", "Hoare">>]>>),
     relatedSearches |-> List([n \in 1..MaxResults |-> "related" \o ToString(n)]),
     peopleAlsoAsk |-> List([n \in 1..MaxResults |->
                               IF n = 2 THEN [question |-> "question2", snippet |-> Missing]
                               ELSE Question(n)])]
BodyMixed ==
    [py |-> "dict",
     organic |-> List(<<[title |-> Missing, snippet |-> Missing, link |-> Missing,
                         url |-> Missing], Item(2)>>),
     knowledgeGraph |-> Dict(<<[key |-> "imageUrl", list |-> FALSE, value |-> "rust.png"],
                               [key |-> "website", list |-> FALSE,
                                value |-> "rust-lang.org"]>>),
     relatedSearches |-> List(<<>>),
     peopleAlsoAsk |-> List([n \in 1..MaxResults |->
                               IF n = 1 THEN [question |-> Missing, snippet |-> "answer1"]
                               ELSE IF n <= PaaLimit THEN [question |-> "", snippet |-> Missing]
                               ELSE Question(n)])]
BodyNotAnObject == List(<<>>)

Bodies == {BodyNoOrganic, BodyOne, BodyFull, BodyMixed, BodyNotAnObject}

KeyError == Exc("KeyError", "'SERPER_API_KEY'")
ConnectionError == Exc("ConnectionError", "Connection refused")
GetAttributeError == Exc("AttributeError", "'list' object has no attribute 'get'")
NoInvokeError == Exc("AttributeError", "'CompiledGraph' object has no attribute 'invoke'")
NotCallableError == Exc("TypeError", "'CompiledGraph' object is not callable")
ValidationError == Exc("ValidationError", "1 validation error for TextMessageContentEvent")
IndexError == Exc("IndexError", "list index out of range")
GraphBuildError == Exc("ValueError", "graph construction failed")

ReportA == Str(<<"# Report A">>)
ReportB == Str(<<"# Report B">>)

NoInput == [kind |-> "none"]
GraphApis == {"raise", "invoke", "call", "both"}
GraphOutcomes == {[kind |-> "graph", api |-> a] : a \in GraphApis}
SearchOutcomes ==
    {[kind |-> "no_key"], [kind |-> "post_raises"]}
        \cup {[kind |-> "json", body |-> b] : b \in Bodies}
CompletionOutcomes ==
    {[kind |-> "raise", exc |-> APITimeoutError]}
        \cup {[kind |-> "return", content |-> c] : c \in {None, Str(<<>>), ReportA, ReportB}}
Shapes == {"list", "not_list", "empty", "no_content"}
ShapeOutcomes == {[kind |-> "result", shape |-> x] : x \in Shapes}
ContentEventOutcomes == {[kind |-> "event", built |-> b] : b \in BOOLEAN}

FullEnv ==
    [graph |-> GraphOutcomes, search |-> SearchOutcomes, completion |-> CompletionOutcomes,
     shape |-> ShapeOutcomes, content |-> ContentEventOutcomes]

\* the collaborators as the concurrent requests meet them: odd requests get a graph with
\* invoke and a search that succeeds, even ones the older call API and any search outcome
ConcEnv(r) ==
    [graph |-> {[kind |-> "graph", api |-> IF r % 2 = 1 THEN "invoke" ELSE "call"]},
     search |-> IF r % 2 = 1 THEN {[kind |-> "json", body |-> BodyOne]}
                ELSE {[kind |-> "post_raises"], [kind |-> "json", body |-> BodyFull]},
     completion |-> IF r % 2 = 1
                    THEN {[kind |-> "return", content |-> c] : c \in {ReportA, ReportB}}
                    ELSE {[kind |-> "return", content |-> ReportB]},
     shape |-> {[kind |-> "result", shape |-> "list"]},
     content |-> {[kind |-> "event", built |-> TRUE]}]

Uuid4(r) == [kind |-> "uuid", uuid |-> r]

Message(n, r) == [content |-> Str(<<"query " \o ToString(n) \o " of request " \o ToString(r)>>)]
MessageLists(r) == {[n \in 1..k |-> Message(n, r)] : k \in 0..MaxMsgs}
RunAgentInputs(r) ==
    {[thread_id |-> [thread |-> r], run_id |-> [run |-> r], messages |-> m] :
        m \in MessageLists(r)}

\* ------------------------------------------------- event_generator, by step
VARIABLES input_data, gen, stream, calls, tape, env
vars == <<input_data, gen, stream, calls, tape, env>>

InitFrame ==
    [pc |-> "begin", i |-> 0, query |-> None, message_id |-> None, graph |-> "unset",
     attempt |-> "none", body |-> None, search_results |-> None, report |-> None,
     node_completions |-> 0, result |-> None, report_content |-> None, e |-> None]

Terminal == {"done", "crashed"}
\* positions between two suspension points: the event loop runs nothing else there
RunningPcs == {"invoke", "fallback", "web_search", "create_detailed_report",
               "graph_return", "check_result", "except"}

Yield(f, pc, event) == [f |-> [f EXCEPT !.pc = pc], out |-> <<event>>, calls |-> <<>>]
Jump(f, pc) == [f |-> [f EXCEPT !.pc = pc], out |-> <<>>, calls |-> <<>>]
Called(n, api, arg) == [n EXCEPT !.calls = <<[api |-> api, arg |-> arg]>>]

\* an exception leaving the generator: the response body ends there
Crash(f, exc) == Jump([f EXCEPT !.e = exc], "crashed")

DoBegin(inp, f, uuid) ==
    IF Len(inp.messages) = 0 THEN Crash(f, IndexError)
    ELSE Yield([f EXCEPT !.query = inp.messages[Len(inp.messages)].content,
                         !.message_id = uuid],
               "snapshot", RunStartedEvent(inp.thread_id, inp.run_id))

DoSnapshot(f) ==
    Yield(f, "gathering", StateSnapshotEvent(f.message_id, InitialState(f.query)))

DoGathering(f) ==
    Yield([f EXCEPT !.i = 0], "gather_loop", StateDeltaEvent(f.message_id, GatheringDelta))

DoGatherLoop(f) ==
    Yield([f EXCEPT !.i = IF f.i + 1 < GatherSteps THEN f.i + 1 ELSE 0],
          IF f.i + 1 < GatherSteps THEN "gather_loop" ELSE "analyzing",
          StateDeltaEvent(f.message_id, ProgressDelta(LoopProgress(15, f.i))))

DoAnalyzing(f) ==
    Yield([f EXCEPT !.i = 0], "analyze_loop", StateDeltaEvent(f.message_id, AnalyzingDelta))

DoAnalyzeLoop(f) ==
    Yield([f EXCEPT !.i = IF f.i + 1 < AnalyzeSteps THEN f.i + 1 ELSE 0],
          IF f.i + 1 < AnalyzeSteps THEN "analyze_loop" ELSE "generating",
          StateDeltaEvent(f.message_id, ProgressDelta(LoopProgress(30, f.i))))

DoGenerating(f) ==
    Yield([f EXCEPT !.i = 0], "report_stages", StateDeltaEvent(f.message_id, GeneratingDelta))

DoReportStages(f) ==
    Yield([f EXCEPT !.i = IF f.i + 1 < Len(report_stages) THEN f.i + 1 ELSE 0],
          IF f.i + 1 < Len(report_stages) THEN "report_stages" ELSE "build_graph",
          StateDeltaEvent(f.message_id, StageDelta(f.i)))

\* build_research_graph(): the compiled graph offers invoke, __call__ or both
DoBuildGraph(f, outcome) ==
    IF outcome.api = "raise" THEN Crash(f, GraphBuildError)
    ELSE Jump([f EXCEPT !.graph = outcome.api], "invoke")

EnterNode(f, attempt) ==
    Jump([f EXCEPT !.attempt = attempt, !.body = None, !.search_results = None,
                   !.report = None, !.node_completions = 0], "web_search")

\* the except clause that takes an exception raised while the workflow runs
Handler(f, exc) ==
    IF exc.type = "AttributeError" /\ f.attempt = "invoke" THEN "fallback" ELSE "except"

NodeRaise(f, exc) == Jump([f EXCEPT !.e = exc], Handler(f, exc))

DoInvoke(f) ==
    IF f.graph \in {"invoke", "both"} THEN EnterNode(f, "invoke")
    ELSE NodeRaise([f EXCEPT !.attempt = "invoke"], NoInvokeError)

DoFallback(f) ==
    IF f.graph \in {"call", "both"} THEN EnterNode(f, "call")
    ELSE NodeRaise([f EXCEPT !.attempt = "call"], NotCallableError)

\* research_node up to the return of web_search
DoWebSearch(f, outcome) ==
    IF outcome.kind = "no_key" THEN NodeRaise(f, KeyError)
    ELSE IF outcome.kind = "post_raises"
    THEN Called(NodeRaise(f, ConnectionError), "search", f.query)
    ELSE IF outcome.body.py # "dict"
    THEN Called(NodeRaise([f EXCEPT !.body = outcome.body], GetAttributeError),
                "search", f.query)
    ELSE Called(Jump([f EXCEPT !.body = outcome.body,
                               !.search_results = web_search(outcome.body)],
                     "create_detailed_report"),
                "search", f.query)

\* research_node from create_detailed_report to its return
DoCreateDetailedReport(f, completion) ==
    LET rep == create_detailed_report(f.search_results, completion)
        g == [f EXCEPT !.node_completions = IF rep.called THEN @ + 1 ELSE @]
        n == IF rep.raised THEN NodeRaise(g, rep.value)
             ELSE Jump([g EXCEPT !.report = rep.value], "graph_return")
    IN IF rep.called THEN Called(n, "completion", rep.prompt) ELSE n

\* the value graph.invoke(...) or graph(...) hands back for the node's output
GraphResult(report, shape) ==
    CASE shape = "list" -> List(<<AIMessage(report)>>)
      [] shape = "not_list" -> Dict(<<>>)
      [] shape = "empty" -> List(<<>>)
      [] shape = "no_content" -> List(<<[py |-> "object"]>>)

DoGraphReturn(f, outcome) ==
    Jump([f EXCEPT !.result = GraphResult(f.report, outcome.shape)], "check_result")

DoCheckResultSilent(f) ==
    IF f.result.py = "list" /\ Len(f.result.v) > 0
    THEN LET report_item == f.result.v[1]
         IN IF report_item.py = "AIMessage"
            THEN Yield([f EXCEPT !.report_content = report_item.content], "text_start",
                       StateDeltaEvent(f.message_id, SuccessDelta(report_item.content)))
            ELSE Yield(f, "run_finished",
                       StateDeltaEvent(f.message_id, ErrorDelta(InvalidFormatMsg)))
    ELSE Jump(f, "run_finished")

DoCheckResult(f) ==
    IF f.result.py = "list" /\ Len(f.result.v) > 0
    THEN LET report_item == f.result.v[1]
         IN IF report_item.py = "AIMessage"
            THEN Yield([f EXCEPT !.report_content = report_item.content], "text_start",
                       StateDeltaEvent(f.message_id, SuccessDelta(report_item.content)))
            ELSE Yield(f, "run_finished",
                       StateDeltaEvent(f.message_id, ErrorDelta(InvalidFormatMsg)))
    ELSE Yield(f, "run_finished", StateDeltaEvent(f.message_id, ErrorDelta(NoResultMsg)))

DoTextStart(f) == Yield(f, "text_content", TextMessageStartEvent(f.message_id))

\* building TextMessageContentEvent validates delta and may raise
DoTextContent(f, outcome) ==
    IF ~outcome.built THEN Jump([f EXCEPT !.e = ValidationError], "except")
    ELSE Yield(f, "text_end", TextMessageContentEvent(f.message_id, f.report_content))

DoTextEnd(f) == Yield(f, "run_finished", TextMessageEndEvent(f.message_id))

DoExcept(f) ==
    Yield(f, "run_finished", StateDeltaEvent(f.message_id, ErrorDelta(FailedMsg(f.e))))

DoRunFinished(inp, f) ==
    Yield(f, "return", RunFinishedEvent(inp.thread_id, inp.run_id))

DoReturn(f) == Jump(f, "done")

\* ------------------------------------------------------------- the server
Reqs == DOMAIN input_data

InputDataOfLatestRequest(r) == input_data[CHOOSE q \in Reqs : \A o \in Reqs : o <= q]

\* event_generator closes over the input_data of its own request
InputData(r) == input_data[r]

\* one event loop: a task runs from one suspension point to the next
CanRun(r) == \A q \in Reqs \ {r} : gen[q].pc \notin RunningPcs

Commit(r, n, input) ==
    /\ gen' = [gen EXCEPT ![r] = n.f]
    /\ stream' = [stream EXCEPT ![r] = @ \o n.out]
    /\ calls' = [calls EXCEPT ![r] = @ \o n.calls]
    /\ tape' = [tape EXCEPT ![r] = IF input = NoInput THEN @ ELSE Append(@, input)]
    /\ UNCHANGED <<input_data, env>>

At(r, pc) == r \in Reqs /\ gen[r].pc = pc /\ CanRun(r)

Begin(r) == At(r, "begin") /\ Commit(r, DoBegin(InputData(r), gen[r], Uuid4(r)), Uuid4(r))
Snapshot(r) == At(r, "snapshot") /\ Commit(r, DoSnapshot(gen[r]), NoInput)
Gathering(r) == At(r, "gathering") /\ Commit(r, DoGathering(gen[r]), NoInput)
GatherLoop(r) == At(r, "gather_loop") /\ Commit(r, DoGatherLoop(gen[r]), NoInput)
Analyzing(r) == At(r, "analyzing") /\ Commit(r, DoAnalyzing(gen[r]), NoInput)
AnalyzeLoop(r) == At(r, "analyze_loop") /\ Commit(r, DoAnalyzeLoop(gen[r]), NoInput)
Generating(r) == At(r, "generating") /\ Commit(r, DoGenerating(gen[r]), NoInput)
ReportStages(r) == At(r, "report_stages") /\ Commit(r, DoReportStages(gen[r]), NoInput)
BuildGraph(r) ==
    /\ At(r, "build_graph")
    /\ \E outcome \in env[r].graph : Commit(r, DoBuildGraph(gen[r], outcome), outcome)
Invoke(r) == At(r, "invoke") /\ Commit(r, DoInvoke(gen[r]), NoInput)
Fallback(r) == At(r, "fallback") /\ Commit(r, DoFallback(gen[r]), NoInput)
WebSearch(r) ==
    /\ At(r, "web_search")
    /\ \E outcome \in env[r].search : Commit(r, DoWebSearch(gen[r], outcome), outcome)
CreateDetailedReport(r) ==
    /\ At(r, "create_detailed_report")
    /\ \E completion \in (IF IsStr(gen[r].search_results) THEN {NoInput} ELSE env[r].completion) :
           Commit(r, DoCreateDetailedReport(gen[r], completion), completion)
GraphReturn(r) ==
    /\ At(r, "graph_return")
    /\ \E outcome \in env[r].shape : Commit(r, DoGraphReturn(gen[r], outcome), outcome)
CheckResult(r) == At(r, "check_result") /\ Commit(r, DoCheckResult(gen[r]), NoInput)
TextStart(r) == At(r, "text_start") /\ Commit(r, DoTextStart(gen[r]), NoInput)
TextContent(r) ==
    /\ At(r, "text_content")
    /\ \E outcome \in env[r].content : Commit(r, DoTextContent(gen[r], outcome), outcome)
TextEnd(r) == At(r, "text_end") /\ Commit(r, DoTextEnd(gen[r]), NoInput)
Except(r) == At(r, "except") /\ Commit(r, DoExcept(gen[r]), NoInput)
RunFinished(r) == At(r, "run_finished") /\ Commit(r, DoRunFinished(InputData(r), gen[r]), NoInput)
Return(r) == At(r, "return") /\ Commit(r, DoReturn(gen[r]), NoInput)

InitRequests(rs, inputs, e) ==
    /\ input_data \in inputs
    /\ gen = [r \in rs |-> InitFrame]
    /\ stream = [r \in rs |-> <<>>]
    /\ calls = [r \in rs |-> <<>>]
    /\ tape = [r \in rs |-> <<>>]
    /\ env = [r \in rs |-> e[r]]

\* one request, any message list, every behaviour of the collaborators
Init == InitRequests({1}, [{1} -> RunAgentInputs(1)], [r \in {1} |-> FullEnv])

\* NumReqs concurrent requests, each with one message
InitConc ==
    InitRequests(1..NumReqs,
                 {[r \in 1..NumReqs |->
                      [thread_id |-> [thread |-> r], run_id |-> [run |-> r],
                       messages |-> <<Message(1, r)>>]]},
                 [r \in 1..NumReqs |-> ConcEnv(r)])

Next ==
    \E r \in 1..NumReqs :
        \/ Begin(r)
        \/ Snapshot(r)
        \/ Gathering(r)
        \/ GatherLoop(r)
        \/ Analyzing(r)
        \/ AnalyzeLoop(r)
        \/ Generating(r)
        \/ ReportStages(r)
        \/ BuildGraph(r)
        \/ Invoke(r)
        \/ Fallback(r)
        \/ WebSearch(r)
        \/ CreateDetailedReport(r)
        \/ GraphReturn(r)
        \/ CheckResult(r)
        \/ TextStart(r)
        \/ TextContent(r)
        \/ TextEnd(r)
        \/ Except(r)
        \/ RunFinished(r)
        \/ Return(r)

Spec == Init /\ [][Next]_vars
SpecConc == InitConc /\ [][Next]_vars

\* ---------------------------------------------------------------- streams
Terminated(r) == gen[r].pc \in Terminal
Finished(r) == gen[r].pc = "done"
Types(s) == [k \in 1..Len(s) |-> s[k].type]
Positions(s, type) == {k \in 1..Len(s) : s[k].type = type}
Count(s, type) == Cardinality(Positions(s, type))
TextTypes == {"TEXT_MESSAGE_START", "TEXT_MESSAGE_CONTENT", "TEXT_MESSAGE_END"}
HasText(s) == \E k \in 1..Len(s) : s[k].type \in TextTypes
Sets(event, path) == \E j \in 1..Len(event.delta) : event.delta[j].path = path
ValueOf(event, path) ==
    event.delta[CHOOSE j \in 1..Len(event.delta) : event.delta[j].path = path].value
IsDelta(event) == event.type = "STATE_DELTA"
IsErrorDelta(event) ==
    IsDelta(event) /\ Sets(event, "/status/error") /\ ValueOf(event, "/status/error") # None
IsSuccessDelta(event) == IsDelta(event) /\ Sets(event, "/processing/report")
ErrorDeltas(s) == {k \in 1..Len(s) : IsErrorDelta(s[k])}

CarriesProgress(event) ==
    event.type = "STATE_SNAPSHOT" \/ (IsDelta(event) /\ Sets(event, "/processing/progress"))
ProgressOf(event) ==
    IF event.type = "STATE_SNAPSHOT" THEN event.snapshot.processing.progress
    ELSE ValueOf(event, "/processing/progress")
ProgressEvents(s) == SelectSeq(s, CarriesProgress)
CarriesPhase(event) ==
    event.type = "STATE_SNAPSHOT" \/ (IsDelta(event) /\ Sets(event, "/status/phase"))
PhaseOf(event) ==
    IF event.type = "STATE_SNAPSHOT" THEN event.snapshot.status.phase
    ELSE ValueOf(event, "/status/phase")
PhaseEvents(s) == SelectSeq(s, CarriesPhase)
PhaseSeq(s) == [k \in 1..Len(PhaseEvents(s)) |-> PhaseOf(PhaseEvents(s)[k])]
Phases ==
    <<"initialized", "gathering_information", "analyzing_information", "generating_report",
      "completed">>
IsPrefix(a, b) == Len(a) <= Len(b) /\ a = SubSeq(b, 1, Len(a))
Contains(text, token) == \E j \in 1..Len(text.s) : text.s[j] = token

\* the exception a recorded search or completion outcome makes the call raise, if any
CallRaises(input) ==
    \/ input.kind \in {"no_key", "post_raises", "raise"}
    \/ input.kind = "json" /\ input.body.py # "dict"
RaisedBy(input) ==
    CASE input.kind = "no_key" -> KeyError
      [] input.kind = "post_raises" -> ConnectionError
      [] input.kind = "raise" -> input.exc
      [] input.kind = "json" -> GetAttributeError
FailedCalls(r) == {k \in 1..Len(tape[r]) : CallRaises(tape[r][k])}
SearchCalls(r) == {k \in 1..Len(calls[r]) : calls[r][k].api = "search"}
CompletionCalls(r) == {k \in 1..Len(calls[r]) : calls[r][k].api = "completion"}
NoOrganic(input) ==
    input.kind = "json" /\ input.body.py = "dict" /\ ~Truthy(input.body.organic)

\* ------------------------------------------------------------------ claims

\* C1: every request's stream, once the generator has stopped, contains exactly one
\* RUN_FINISHED event and that event is the last one of the stream.
C1_ExactlyOneRunFinishedLast ==
    \A r \in Reqs :
        Terminated(r) =>
            /\ Count(stream[r], "RUN_FINISHED") = 1
            /\ stream[r][Len(stream[r])].type = "RUN_FINISHED"

\* C2: when a search or completion call raised, the finished stream has exactly one
\* error STATE_DELTA (phase completed, error containing the text of each raised exception,
\* research/completed false), directly followed by RUN_FINISHED, and no text-message event.
C2_CallFailureGivesErrorDelta ==
    \A r \in Reqs :
        (Finished(r) /\ FailedCalls(r) # {}) =>
            LET s == stream[r]
            IN /\ Cardinality(ErrorDeltas(s)) = 1
               /\ \A k \in ErrorDeltas(s) :
                     /\ ValueOf(s[k], "/status/phase") = "completed"
                     /\ \A c \in FailedCalls(r) :
                           Contains(ValueOf(s[k], "/status/error"), RaisedBy(tape[r][c]).text)
                     /\ ValueOf(s[k], "/research/completed") = FALSE
                     /\ k < Len(s) /\ s[k + 1].type = "RUN_FINISHED"
               /\ ~HasText(s)

\* C3: no stream contains both an error STATE_DELTA (one setting /status/error to a
\* non-null message) and a text-message event.
C3_NoTextWithError ==
    \A r \in Reqs : ~(ErrorDeltas(stream[r]) # {} /\ HasText(stream[r]))

\* C4 as stated: the progress values established by the snapshot and the deltas, in
\* emission order, are non-decreasing and all lie in [0,1] (0..100 hundredths).
C4_ProgressNonDecreasing ==
    \A r \in Reqs :
        LET p == ProgressEvents(stream[r])
        IN /\ \A k \in 1..Len(p) : ProgressOf(p[k]) \in 0..100
           /\ \A k \in 1..(Len(p) - 1) : ProgressOf(p[k]) <= ProgressOf(p[k + 1])

\* C4 amended: every progress value lies in [0,1], and the sequence is non-decreasing
\* except at an error STATE_DELTA, which resets progress to 0; a stream without an error
\* delta that finished ends at progress 1.0.
C4_ProgressNonDecreasingUntilError ==
    \A r \in Reqs :
        LET p == ProgressEvents(stream[r])
        IN /\ \A k \in 1..Len(p) : ProgressOf(p[k]) \in 0..100
           /\ \A k \in 1..(Len(p) - 1) :
                 \/ ProgressOf(p[k]) <= ProgressOf(p[k + 1])
                 \/ IsErrorDelta(p[k + 1]) /\ ProgressOf(p[k + 1]) = 0
           /\ \A k \in 1..Len(p) : IsErrorDelta(p[k]) => ProgressOf(p[k]) = 0
           /\ (Finished(r) /\ ErrorDeltas(stream[r]) = {}) => ProgressOf(p[Len(p)]) = 100

C4_Witness ==
    \E r \in Reqs :
        /\ Finished(r)
        /\ ErrorDeltas(stream[r]) # {}
        /\ \E k \in 1..Len(stream[r]) :
              IsDelta(stream[r][k]) /\ Sets(stream[r][k], "/research/stage")
              /\ ValueOf(stream[r][k], "/research/stage") = "finalizing_report"
              /\ ValueOf(stream[r][k], "/processing/progress") = 83

\* C5: the values written to /status/phase by the snapshot and the deltas are, in every
\* run, exactly the five phases in order, none skipped or repeated, nothing after completed.
C5_PhasesExactlyInOrder ==
    \A r \in Reqs :
        /\ IsPrefix(PhaseSeq(stream[r]), Phases)
        /\ Terminated(r) => PhaseSeq(stream[r]) = Phases

\* C6: a stream with the success delta carries, directly after it, exactly one
\* TEXT_MESSAGE_START, TEXT_MESSAGE_CONTENT and TEXT_MESSAGE_END with the run's message_id,
\* the content being the workflow's report, then RUN_FINISHED; no START lacks its END.
C6_ReportTriplet ==
    \A r \in Reqs :
        Terminated(r) =>
            LET s == stream[r]
            IN /\ \A k \in 1..Len(s) :
                     IsSuccessDelta(s[k]) =>
                        /\ k + 4 <= Len(s)
                        /\ s[k + 1] = TextMessageStartEvent(gen[r].message_id)
                        /\ s[k + 2] = TextMessageContentEvent(gen[r].message_id, gen[r].report)
                        /\ s[k + 3] = TextMessageEndEvent(gen[r].message_id)
                        /\ s[k + 4].type = "RUN_FINISHED"
               /\ Count(s, "TEXT_MESSAGE_START") <= 1
               /\ Count(s, "TEXT_MESSAGE_START") = Count(s, "TEXT_MESSAGE_END")
               /\ Count(s, "TEXT_MESSAGE_START") = Count(s, "TEXT_MESSAGE_CONTENT")

\* C7: every run emits exactly one STATE_SNAPSHOT, as the second event directly after
\* RUN_STARTED and before every STATE_DELTA; every delta operation is a "replace".
C7_OneSnapshotSecond ==
    \A r \in Reqs :
        LET s == stream[r]
        IN /\ Positions(s, "STATE_SNAPSHOT") \subseteq {2}
           /\ \A k \in Positions(s, "STATE_DELTA") :
                 /\ k > 2
                 /\ \A j \in 1..Len(s[k].delta) : s[k].delta[j].op = "replace"
           /\ Terminated(r) =>
                 /\ Count(s, "STATE_SNAPSHOT") = 1
                 /\ s[1].type = "RUN_STARTED"

\* C8: a search response without organic results makes web_search return the fallback
\* string, create_detailed_report returns a string argument unchanged, and such a run
\* issues no completion call.
C8_NoResultsShortCircuit ==
    \A r \in Reqs :
        LET f == gen[r]
        IN /\ (f.body # None /\ f.body.py = "dict" /\ ~Truthy(f.body.organic)) =>
                 /\ f.search_results = NoResults
                 /\ f.node_completions = 0
                 /\ f.report # None => f.report = NoResults
           /\ (f.search_results # None /\ IsStr(f.search_results) /\ f.report # None) =>
                 f.report = f.search_results /\ f.node_completions = 0
           /\ (\E k \in 1..Len(tape[r]) : NoOrganic(tape[r][k])) => CompletionCalls(r) = {}

C8_Witness ==
    \E r \in Reqs :
        /\ Finished(r)
        /\ \E k \in 1..Len(tape[r]) : NoOrganic(tape[r][k])
        /\ \E k \in 1..Len(stream[r]) :
              stream[r][k] = TextMessageContentEvent(gen[r].message_id, NoResults)

\* C9: there is no retry: no run attempts the search call or the completion call more
\* than once, and a finished run has attempted each exactly once.
C9_EachCallExactlyOnce ==
    \A r \in Reqs :
        /\ Cardinality(SearchCalls(r)) <= 1
        /\ Cardinality(CompletionCalls(r)) <= 1
        /\ Finished(r) =>
              Cardinality(SearchCalls(r)) = 1 /\ Cardinality(CompletionCalls(r)) = 1

\* the run of one request alone, fed the collaborators' outcomes recorded on a tape
NeedsInput(f) ==
    \/ f.pc \in {"begin", "build_graph", "web_search", "graph_return", "text_content"}
    \/ f.pc = "create_detailed_report" /\ ~IsStr(f.search_results)

Step(inp, f, input) ==
    CASE f.pc = "begin" -> DoBegin(inp, f, input)
      [] f.pc = "snapshot" -> DoSnapshot(f)
      [] f.pc = "gathering" -> DoGathering(f)
      [] f.pc = "gather_loop" -> DoGatherLoop(f)
      [] f.pc = "analyzing" -> DoAnalyzing(f)
      [] f.pc = "analyze_loop" -> DoAnalyzeLoop(f)
      [] f.pc = "generating" -> DoGenerating(f)
      [] f.pc = "report_stages" -> DoReportStages(f)
      [] f.pc = "build_graph" -> DoBuildGraph(f, input)
      [] f.pc = "invoke" -> DoInvoke(f)
      [] f.pc = "fallback" -> DoFallback(f)
      [] f.pc = "web_search" -> DoWebSearch(f, input)
      [] f.pc = "create_detailed_report" -> DoCreateDetailedReport(f, input)
      [] f.pc = "graph_return" -> DoGraphReturn(f, input)
      [] f.pc = "check_result" -> DoCheckResult(f)
      [] f.pc = "text_start" -> DoTextStart(f)
      [] f.pc = "text_content" -> DoTextContent(f, input)
      [] f.pc = "text_end" -> DoTextEnd(f)
      [] f.pc = "except" -> DoExcept(f)
      [] f.pc = "run_finished" -> DoRunFinished(inp, f)
      [] f.pc = "return" -> DoReturn(f)

RECURSIVE Alone(_, _, _)
Alone(inp, run, t) ==
    IF run.f.pc \in Terminal \/ (NeedsInput(run.f) /\ t = <<>>) THEN run
    ELSE LET input == IF NeedsInput(run.f) THEN Head(t) ELSE NoInput
             n == Step(inp, run.f, input)
         IN Alone(inp, [f |-> n.f, out |-> run.out \o n.out, calls |-> run.calls \o n.calls],
                  IF NeedsInput(run.f) THEN Tail(t) ELSE t)

RunAlone(r) == Alone(input_data[r], [f |-> InitFrame, out |-> <<>>, calls |-> <<>>], tape[r])

CarriesMessageId(event) == event.type \notin {"RUN_STARTED", "RUN_FINISHED"}

\* C10: under any interleaving of concurrent requests, each request's stream and calls
\* are those of the same request run alone with the same collaborator outcomes, and every
\* event carries the request's own thread_id/run_id, message_id, query and report.
C10_RequestsIndependent ==
    \A r \in Reqs :
        LET alone == RunAlone(r)
            s == stream[r]
        IN /\ IsPrefix(s, alone.out)
           /\ IsPrefix(calls[r], alone.calls)
           /\ Terminated(r) => (s = alone.out /\ calls[r] = alone.calls)
           /\ \A k \in 1..Len(s) :
                 /\ CarriesMessageId(s[k]) => s[k].message_id = Uuid4(r)
                 /\ ~CarriesMessageId(s[k]) =>
                       s[k].thread_id = [thread |-> r] /\ s[k].run_id = [run |-> r]
                 /\ s[k].type = "STATE_SNAPSHOT" =>
                       s[k].snapshot.research.query = Message(1, r).content
                 /\ s[k].type = "TEXT_MESSAGE_CONTENT" => s[k].delta = gen[r].report
                 /\ IsSuccessDelta(s[k]) => ValueOf(s[k], "/processing/report") = gen[r].report
           /\ \A k \in 1..Len(calls[r]) :
                 calls[r][k].api = "search" => calls[r][k].arg = Message(1, r).content

C10_Witness ==
    /\ Cardinality(Reqs) >= 2
    /\ \E r, q \in Reqs :
          /\ r # q
          /\ gen[r].pc = "text_end"
          /\ gen[q].pc = "run_finished"
          /\ ErrorDeltas(stream[q]) # {}
          /\ gen[r].report # None

\* the positions at which a task is inside the search call or the completion call
NetworkPcs == {"web_search", "create_detailed_report"}

\* a step of the task of request q
TaskStep(q) ==
    \/ Begin(q) \/ Snapshot(q) \/ Gathering(q) \/ GatherLoop(q) \/ Analyzing(q)
    \/ AnalyzeLoop(q) \/ Generating(q) \/ ReportStages(q) \/ BuildGraph(q) \/ Invoke(q)
    \/ Fallback(q) \/ WebSearch(q) \/ CreateDetailedReport(q) \/ GraphReturn(q)
    \/ CheckResult(q) \/ TextStart(q) \/ TextContent(q) \/ TextEnd(q) \/ Except(q)
    \/ RunFinished(q) \/ Return(q)

\* C11: while one request is inside its search or completion call, every other request
\* whose generator has not stopped can be scheduled and take its next step.
C11_OthersRunDuringNetworkCalls ==
    \A r, q \in Reqs :
        (r # q /\ gen[r].pc \in NetworkPcs /\ ~Terminated(q)) => ENABLED TaskStep(q)

MalformedResult(input) == input.kind = "result" /\ input.shape # "list"
Malformed(r) == {k \in 1..Len(tape[r]) : MalformedResult(tape[r][k])}

\* C12: when the workflow hands back a malformed result (not a list, an empty list, a first
\* item without content) the endpoint emits one error STATE_DELTA (phase completed, error
\* set, stage error, research/completed false), no text-message event, then RUN_FINISHED.
C12_MalformedResultGivesError ==
    \A r \in Reqs :
        (Malformed(r) # {} /\ gen[r].pc # "check_result") =>
            LET s == stream[r]
                d == s[IF Finished(r) \/ gen[r].pc = "return" THEN Len(s) - 1 ELSE Len(s)]
            IN /\ Cardinality(ErrorDeltas(s)) = 1
               /\ IsErrorDelta(d)
               /\ ValueOf(d, "/status/phase") = "completed"
               /\ ValueOf(d, "/status/error") =
                     (IF \E k \in Malformed(r) : tape[r][k].shape = "no_content"
                      THEN InvalidFormatMsg ELSE NoResultMsg)
               /\ ValueOf(d, "/research/stage") = "error"
               /\ ValueOf(d, "/research/completed") = FALSE
               /\ ~HasText(s)
               /\ ~(\E k \in 1..Len(s) : IsSuccessDelta(s[k]))
               /\ Finished(r) => s[Len(s)].type = "RUN_FINISHED"

C12_Witness ==
    \E r \in Reqs :
        /\ Finished(r)
        /\ \E k \in Malformed(r) : tape[r][k].shape = "no_content"
        /\ gen[r].report # None

\* the phase a stream has reached: the last value written to /status/phase
CurrentPhase(s) == PhaseSeq(s)[Len(PhaseSeq(s))]
ErrorSources ==
    {"initialized", "gathering_information", "analyzing_information", "generating_report"}

\* C13: a failure (an exception raised in the generator) while the run is in one of the
\* phases initialized, gathering_information, analyzing_information, generating_report
\* leads to the terminal error STATE_DELTA being emitted.
C13_FailureInAnyPhaseGivesErrorDelta ==
    \A r \in Reqs :
        LET s == stream[r]
        IN /\ (gen[r].pc = "crashed" /\ PhaseSeq(s) # <<>> /\ CurrentPhase(s) \in ErrorSources)
                 => ErrorDeltas(s) # {}
           /\ (Finished(r) /\ gen[r].e # None) => ErrorDeltas(s) # {}

\* the positions of a token in a text, in order
Indices(t, token) == SelectSeq([k \in 1..Len(t) |-> k], LAMBDA k : t[k] = token)
Min(a, b) == IF a < b THEN a ELSE b
\* the prompts handed to the completion API by request r
Prompts(r) == {calls[r][k].arg : k \in CompletionCalls(r)}
FirstOf(v, n) == IF ~Truthy(v) THEN None ELSE List([j \in 1..Min(n, Len(v.v)) |-> v.v[j]])

\* C14: the text sent to the completion API holds a Title/Snippet/Link block for each of
\* the first five organic results of the search response and for no others, in the
\* original order, with that result's title, snippet and link (url when link is absent);
\* web_search keeps only the first 3 related searches and the first 3 people-also-ask
\* entries.
C14_FirstFiveOrganicBlocks ==
    \A r \in Reqs :
        \A prompt \in Prompts(r) :
            LET organic == gen[r].body.organic.v
                at == Indices(prompt, "Title: ")
            IN /\ Len(at) = Min(5, Len(organic))
               /\ \A j \in 1..Len(at) :
                     LET o == organic[j]
                         p == at[j]
                     IN /\ p + 5 <= Len(prompt)
                        /\ prompt[p + 1] = (IF o.title = Missing THEN "No title" ELSE o.title)
                        /\ prompt[p + 2] = "\nSnippet: "
                        /\ prompt[p + 3] =
                              (IF o.snippet = Missing THEN "No preview" ELSE o.snippet)
                        /\ prompt[p + 4] = "\nLink: "
                        /\ prompt[p + 5] =
                              (IF o.link # Missing THEN o.link
                               ELSE IF o.url # Missing THEN o.url ELSE "No link")
               /\ Len(Indices(prompt, "\nSnippet: ")) = Len(at)
               /\ Len(Indices(prompt, "\nLink: ")) = Len(at)
               /\ gen[r].search_results.relatedSearches = FirstOf(gen[r].body.relatedSearches, 3)
               /\ gen[r].search_results.peopleAlsoAsk = FirstOf(gen[r].body.peopleAlsoAsk, 3)

C14_Witness ==
    \E r \in Reqs :
        /\ Prompts(r) # {}
        /\ Len(gen[r].body.organic.v) > 5
        /\ Len(gen[r].body.relatedSearches.v) > 3
        /\ Len(gen[r].body.peopleAlsoAsk.v) > 3

SeparatorLine == "\n\n===\n\n"
HasKgFacts(sr) ==
    /\ sr.knowledgeGraph # None
    /\ \E j \in 1..Len(sr.knowledgeGraph.v) :
          sr.knowledgeGraph.v[j].key \notin {"type", "title", "imageUrl"}
HasRelated(sr) == sr.relatedSearches # None /\ Len(sr.relatedSearches.v) > 0
HasAsked(sr) ==
    /\ sr.peopleAlsoAsk # None
    /\ \E j \in 1..Len(sr.peopleAlsoAsk.v) :
          sr.peopleAlsoAsk.v[j].question \notin {Missing, ""}
\* the first token of each section after the organic one that is not empty, in order
ExpectedHeads(sr) ==
    (IF HasKgFacts(sr) THEN <<"Knowledge Graph about ">> ELSE <<>>)
        \o (IF HasRelated(sr) THEN <<"Related Searches:\n">> ELSE <<>>)
        \o (IF HasAsked(sr) THEN <<"People Also Ask:\n">> ELSE <<>>)

\* C15: the formatted block is the organic section followed by exactly the non-empty ones
\* of the knowledge-graph, related-searches and people-also-ask sections, in that order,
\* joined by the separator line: it never starts or ends with a separator and never has
\* two separators in a row, and an empty section leaves no trace.
C15_NonEmptySectionsJoined ==
    \A r \in Reqs :
        \A prompt \in Prompts(r) :
            LET heads == ExpectedHeads(gen[r].search_results)
                seps == Indices(prompt, SeparatorLine)
            IN /\ prompt[1] = "Title: "
               /\ prompt[Len(prompt)] # SeparatorLine
               /\ Len(seps) = Len(heads)
               /\ \A j \in 1..Len(seps) :
                     seps[j] < Len(prompt) /\ prompt[seps[j] + 1] = heads[j]
               /\ \A j \in 1..Len(seps) : Indices(prompt, heads[j]) = <<seps[j] + 1>>
               /\ \A h \in {"Knowledge Graph about ", "Related Searches:\n",
                             "People Also Ask:\n"} :
                     (\A j \in 1..Len(heads) : heads[j] # h) => Indices(prompt, h) = <<>>

C15_Witness ==
    \E r \in Reqs :
        /\ Prompts(r) # {}
        /\ ExpectedHeads(gen[r].search_results) = <<"Knowledge Graph about ">>
        /\ gen[r].search_results.relatedSearches = None
        /\ gen[r].search_results.peopleAlsoAsk # None

\* the tokens a knowledge-graph value is rendered as
Rendered(kv) ==
    IF kv.list
    THEN [j \in 1..(2 * Len(kv.value) - 1) |->
             IF j % 2 = 1 THEN kv.value[(j + 1) \div 2] ELSE ", "]
    ELSE <<kv.value>>
\* a "key: value" line of the text starts at position p and is a whole line
IsLineAt(t, p, kv) ==
    LET n == Len(Rendered(kv))
    IN /\ p > 1 /\ t[p - 1] \in {":\n", "\n"}
       /\ p + 1 + n <= Len(t)
       /\ t[p] = kv.key /\ t[p + 1] = ": "
       /\ SubSeq(t, p + 2, p + 1 + n) = Rendered(kv)
       /\ (p + 1 + n = Len(t) \/ t[p + 2 + n] \in {"\n", SeparatorLine})

\* C16: the knowledge-graph section has one "key: value" line for every key of the
\* knowledge graph other than type, title and imageUrl and no line for these three; a
\* list value is rendered as its elements joined by commas.
C16_KnowledgeGraphLines ==
    \A r \in Reqs :
        \A prompt \in Prompts(r) :
            LET kg == gen[r].search_results.knowledgeGraph
                pairs == IF kg = None THEN <<>> ELSE kg.v
                facts == {j \in 1..Len(pairs) : pairs[j].key \notin {"type", "title", "imageUrl"}}
            IN /\ \A j \in facts :
                     Cardinality({p \in 1..Len(prompt) : IsLineAt(prompt, p, pairs[j])}) = 1
               /\ \A j \in (1..Len(pairs)) \ facts :
                     ~\E p \in 1..(Len(prompt) - 1) :
                         prompt[p] = pairs[j].key /\ prompt[p + 1] = ": "
               /\ Len(Indices(prompt, ": ")) = Cardinality(facts)

C16_Witness ==
    \E r \in Reqs :
        /\ Prompts(r) # {}
        /\ gen[r].search_results.knowledgeGraph # None
        /\ \E j, k, l \in 1..Len(gen[r].search_results.knowledgeGraph.v) :
              LET pairs == gen[r].search_results.knowledgeGraph.v
              IN pairs[j].key = "title" /\ pairs[k].list /\ pairs[l].key = "description"

\* what an event is in the control flow: its type, or for a delta the phase or stage it
\* enters ("progress" for a delta that only advances the progress)
EventKind(event) ==
    IF ~IsDelta(event) THEN event.type
    ELSE IF Sets(event, "/status/phase") THEN ValueOf(event, "/status/phase")
    ELSE IF Sets(event, "/research/stage") THEN ValueOf(event, "/research/stage")
    ELSE "progress"
Kinds(s) == [k \in 1..Len(s) |-> EventKind(s[k])]
\* the events before the workflow: start, snapshot and the scripted progress deltas
Scripted ==
    <<"RUN_STARTED", "STATE_SNAPSHOT">>
        \o <<"gathering_information">> \o [k \in 1..GatherSteps |-> "progress"]
        \o <<"analyzing_information">> \o [k \in 1..AnalyzeSteps |-> "progress"]
        \o <<"generating_report">> \o report_stages
\* the positions of a task inside the workflow call
WorkflowPcs == {"invoke", "fallback", "web_search", "create_detailed_report", "graph_return"}

\* C17: events come in the order of the control flow: RUN_STARTED, the snapshot, all
\* scripted progress deltas, then the workflow (search call before completion call), then
\* the one completion or error delta once the workflow has ended, then text-message
\* events, then RUN_FINISHED; no network call starts before the finalizing_report delta.
C17_EventsFollowControlFlow ==
    \A r \in Reqs :
        LET kinds == Kinds(stream[r])
            n == Len(Scripted)
            tail == IF Len(kinds) > n THEN SubSeq(kinds, n + 1, Len(kinds)) ELSE <<>>
        IN /\ IsPrefix(kinds, Scripted) \/ IsPrefix(Scripted, kinds)
           /\ calls[r] # <<>> => IsPrefix(Scripted, kinds)
           /\ gen[r].pc \in WorkflowPcs => kinds = Scripted
           /\ \A k \in CompletionCalls(r) : \E j \in SearchCalls(r) : j < k
           /\ tail # <<>> => tail[1] = "completed"
           /\ \A j \in 2..Len(tail) : tail[j] \in TextTypes \cup {"RUN_FINISHED"}
           /\ \A j \in 1..Len(tail) : tail[j] = "RUN_FINISHED" => j = Len(tail)

IsStageDelta(event) ==
    /\ IsDelta(event) /\ Sets(event, "/research/stage")
    /\ \E i \in 1..Len(report_stages) : ValueOf(event, "/research/stage") = report_stages[i]
StageEvents(s) == SelectSeq(s, IsStageDelta)
StagesInOrder(st) ==
    /\ Len(st) <= Len(report_stages)
    /\ \A k \in 1..Len(st) :
          /\ ValueOf(st[k], "/research/stage") = report_stages[k]
          /\ Len(st[k].delta) = 2 /\ Sets(st[k], "/processing/progress")

\* C18 as stated: the seven report sub-stages come in order, one delta each, with a
\* progress going in equal steps (rounded to two places) from 0.4 at the first stage to
\* 0.9 at the last one.
C18_StagesReachEndProgress ==
    \A r \in Reqs :
        LET st == StageEvents(stream[r])
        IN /\ StagesInOrder(st)
           /\ \A k \in 1..Len(st) :
                 ValueOf(st[k], "/processing/progress") =
                     Round2(40 * (Len(report_stages) - 1) + (90 - 40) * (k - 1),
                            Len(report_stages) - 1)

\* C18 amended: the seven report sub-stages come in order, one delta each, with progress
\* 0.40, 0.47, 0.54, 0.61, 0.69, 0.76, 0.83: steps of (0.9 - 0.4) / 7 from 0.4, rounded
\* to two places, so the last stage stands at 0.83 and 0.9 is never emitted.
C18_StagesStopBelowEndProgress ==
    \A r \in Reqs :
        LET st == StageEvents(stream[r])
        IN /\ StagesInOrder(st)
           /\ \A k \in 1..Len(st) :
                 ValueOf(st[k], "/processing/progress") = <<40, 47, 54, 61, 69, 76, 83>>[k]
           /\ \A k \in 1..Len(stream[r]) :
                 CarriesProgress(stream[r][k]) => ProgressOf(stream[r][k]) # 90
           /\ gen[r].pc \in WorkflowPcs \cup {"done"} => Len(st) = Len(report_stages)

C18_Witness ==
    \E r \in Reqs :
        /\ Finished(r)
        /\ Len(StageEvents(stream[r])) = 7
        /\ ValueOf(StageEvents(stream[r])[7], "/research/stage") = "finalizing_report"

\* a terminal delta is one that sets /status/phase to "completed"
IsTerminalDelta(event) ==
    IsDelta(event) /\ Sets(event, "/status/phase")
    /\ ValueOf(event, "/status/phase") = "completed"
TerminalDeltas(s) == {k \in 1..Len(s) : IsTerminalDelta(s[k])}

\* C19: every stream has at most one terminal STATE_DELTA: the success delta and an error
\* delta never both occur in one stream, whatever fails after the success delta.
C19_AtMostOneTerminalDelta ==
    \A r \in Reqs :
        LET s == stream[r]
        IN /\ Cardinality(TerminalDeltas(s)) <= 1
           /\ ~(\E j, k \in 1..Len(s) : IsSuccessDelta(s[j]) /\ IsErrorDelta(s[k]))

\* the JSON pointer of a field of the state document
Pointer(section, field) == "/" \o section \o "/" \o field
\* the replace operations on a path among the first k events, as <<event, operation>>
Replaces(s, k, path) ==
    UNION {{<<i, j>> : j \in {j \in 1..Len(s[i].delta) : s[i].delta[j].path = path}} :
              i \in {i \in 1..k : IsDelta(s[i])}}
LastOf(S) == CHOOSE p \in S : \A q \in S : q[1] < p[1] \/ (q[1] = p[1] /\ q[2] <= p[2])
\* the state a client holds after the first k events of a stream: the snapshot, each
\* field replaced by the value of the last "replace" on its pointer
ClientState(s, k) ==
    IF Positions(s, "STATE_SNAPSHOT") \cap 1..k = {} THEN None
    ELSE LET snapshot == s[CHOOSE i \in Positions(s, "STATE_SNAPSHOT") : i <= k].snapshot
         IN [section \in DOMAIN snapshot |->
                [field \in DOMAIN snapshot[section] |->
                    LET S == Replaces(s, k, Pointer(section, field))
                    IN IF S = {} THEN snapshot[section][field]
                       ELSE s[LastOf(S)[1]].delta[LastOf(S)[2]].value]]

\* C20: when RUN_FINISHED is emitted, the client state built from the snapshot and all
\* deltas has phase completed, inProgress false, processing.completed true, and
\* research.completed is true exactly when the error is null exactly when the report is
\* non-null.
C20_ClientStateAtRunFinished ==
    \A r \in Reqs :
        LET s == stream[r]
        IN (s # <<>> /\ s[Len(s)].type = "RUN_FINISHED") =>
              LET state == ClientState(s, Len(s))
              IN /\ state.status.phase = "completed"
                 /\ state.processing.inProgress = FALSE
                 /\ state.processing.completed = TRUE
                 /\ (state.research.completed = TRUE) <=> (state.status.error = None)
                 /\ (state.status.error = None) <=> (state.processing.report # None)

\* the search of the run's last pass through research_node found no organic results
FoundNothing(r) ==
    gen[r].body # None /\ gen[r].body.py = "dict" /\ ~Truthy(gen[r].body.organic)
\* the workflow's result reached the endpoint as research_node returned it
ResultDelivered(r) ==
    \E k \in 1..Len(tape[r]) : tape[r][k].kind = "result" /\ tape[r][k].shape = "list"
ContentEventRejected(r) ==
    \E k \in 1..Len(tape[r]) : tape[r][k].kind = "event" /\ ~tape[r][k].built
SuccessDeltas(s) == {k \in 1..Len(s) : IsSuccessDelta(s[k])}

\* C21: a run whose search yields no organic results is a success, not an error: the
\* workflow raises nothing and returns the fallback string; the endpoint emits the success
\* STATE_DELTA (research/completed true, progress 1.0, report = the fallback string)
\* without setting /status/error, and streams the fallback string as the text triplet.
C21_NoResultsIsSuccess ==
    \A r \in Reqs :
        LET s == stream[r]
            id == gen[r].message_id
        IN FoundNothing(r) =>
              /\ gen[r].pc \notin {"fallback", "except"} \/ ContentEventRejected(r)
              /\ gen[r].pc \in {"graph_return", "check_result"} =>
                    gen[r].report = NoResults
              /\ (Malformed(r) = {} /\ ~ContentEventRejected(r)) => ErrorDeltas(s) = {}
              /\ (ResultDelivered(r) /\ gen[r].pc # "check_result") =>
                    /\ Cardinality(SuccessDeltas(s)) = 1
                    /\ \A k \in SuccessDeltas(s) :
                          /\ ValueOf(s[k], "/research/completed") = TRUE
                          /\ ValueOf(s[k], "/processing/progress") = 100
                          /\ ValueOf(s[k], "/processing/report") = NoResults
                          /\ ~Sets(s[k], "/status/error")
                          /\ (Finished(r) /\ ~ContentEventRejected(r)) =>
                                SubSeq(s, k + 1, k + 3) =
                                    <<TextMessageStartEvent(id),
                                      TextMessageContentEvent(id, NoResults),
                                      TextMessageEndEvent(id)>>

C21_Witness ==
    \E r \in Reqs :
        /\ Finished(r) /\ FoundNothing(r) /\ ErrorDeltas(stream[r]) = {}
        /\ SuccessDeltas(stream[r]) # {}
        /\ Count(stream[r], "TEXT_MESSAGE_END") = 1

\* the JSON pointers of the fields of a state document
Pointers(state) ==
    UNION {{Pointer(section, field) : field \in DOMAIN state[section]} :
              section \in DOMAIN state}

\* C22: every operation of every STATE_DELTA is a "replace" whose path exists in the
\* document the client holds at that point, which the snapshot established: applying the
\* snapshot and then every delta in order never fails on a missing path.
C22_ReplacePathsExist ==
    \A r \in Reqs :
        LET s == stream[r]
        IN \A k \in Positions(s, "STATE_DELTA") :
              /\ \E j \in Positions(s, "STATE_SNAPSHOT") : j < k
              /\ \A j \in 1..Len(s[k].delta) :
                    /\ s[k].delta[j].op = "replace"
                    /\ s[k].delta[j].path \in Pointers(ClientState(s, k - 1))
                    /\ s[k].delta[j].path \in Pointers(s[2].snapshot)

C22_Witness ==
    \E r \in Reqs :
        /\ Finished(r)
        /\ SuccessDeltas(stream[r]) # {}
        /\ ErrorDeltas(stream[r]) # {}

\* the fields no delta is to touch
FramePaths ==
    {"/research/query", "/research/sources", "/research/sources_found", "/status/timestamp",
     "/ui/showSources", "/ui/showProgress", "/ui/activeTab"}
\* a path that names one of these fields or a document holding one of them
TouchesFrame(path) ==
    path \in FramePaths \cup {"", "/", "/ui", "/research", "/status"}
UnchangedFrame(state, query) ==
    /\ state.research.query = query
    /\ state.research.sources = List(<<>>)
    /\ state.research.sources_found = 0
    /\ state.status.timestamp = Now
    /\ state.ui = [showSources |-> FALSE, showProgress |-> TRUE, activeTab |-> "chat"]

\* C23: no STATE_DELTA changes /research/query, /research/sources,
\* /research/sources_found, /status/timestamp or a field under /ui: from the snapshot to
\* the end of the run the client state keeps their initial values (the request's query,
\* no sources, sources_found 0, showSources false), on success and on every error path.
C23_FrameFieldsUnchanged ==
    \A r \in Reqs :
        LET s == stream[r]
        IN /\ \A k \in Positions(s, "STATE_DELTA") :
                 \A j \in 1..Len(s[k].delta) : ~TouchesFrame(s[k].delta[j].path)
           /\ \A k \in 2..Len(s) :
                 UnchangedFrame(ClientState(s, k),
                                InputData(r).messages[Len(InputData(r).messages)].content)

C23_Witness ==
    \E r \in Reqs :
        /\ Finished(r)
        /\ SuccessDeltas(stream[r]) # {}
        /\ ErrorDeltas(stream[r]) = {}
        /\ UnchangedFrame(ClientState(stream[r], Len(stream[r])), gen[r].query)

====
